---- MODULE Spec2Model ----
(***************************************************************************)
(* Model of PyGit (src/main.py): the object model (GitObject, Blob, Tree,  *)
(* Commit), the object store, the staging index, the tree builder and the  *)
(* commit chain.                                                           *)
(*                                                                         *)
(* Representation of bytes and text.                                       *)
(*  - A blob's content is a string.                                        *)
(*  - A header "{type} {len}\0" is the pair <<type, len>>.                 *)
(*  - A SHA-1 hex digest is modelled by the triple <<type, len, content>>  *)
(*    it was computed from (SHA-1 taken as injective).                     *)
(*  - A tree's content is a sequence of chunks <<mode, name, raw>>, one    *)
(*    per "{mode} {name}\0" + 20 raw digest bytes.                         *)
(*  - A commit's content is the sequence of its text lines (the text       *)
(*    split at "\n"); a line is <<"tree", h>>, <<"parent", h>>,            *)
(*    <<"author", identity, ts>>, <<"committer", identity, ts>> or a free  *)
(*    text line <<"text", s>>; the blank line is <<"text", "">>.           *)
(*  - A path is a string; Split gives its "/"-separated segments.          *)
(*  - A Python dict is the sequence of its <<key, value>> items in         *)
(*    insertion order.                                                     *)
(***************************************************************************)
EXTENDS Integers, Sequences, FiniteSets, TLC

VARIABLES
    exists,     \* the .pygit directory exists
    HEAD,       \* content of the HEAD file
    objects,    \* object files: hash -> compressed bytes
    index,      \* the index file: items <<path, blob hash>> in insertion order
    refs,       \* refs/heads: branch name -> commit hash
    op,         \* the operation called last
    arg,        \* load_object, from_content: the hash loaded;
                \* store_object: whether the object file existed
    ret,        \* its result
    orig,       \* the object passed to the last store_object call
    log,        \* hashes returned by the commit calls that created a commit, oldest first
    treeA,      \* a Tree under construction
    treeB,      \* a second Tree under construction
    procs       \* the concurrent invocations: position and local variables of each

vars == <<exists, HEAD, objects, index, refs, op, arg, ret, orig, log, treeA, treeB, procs>>

repoVars == <<exists, HEAD, objects, index, refs>>

(***************************************************************************)
(* Bounds                                                                  *)
(***************************************************************************)
MaxCommits == 2
MaxEntries == 2
MaxObjects == 6

(***************************************************************************)
(* Inputs                                                                  *)
(***************************************************************************)
Paths == {"a.txt", "dir/b.txt", "dir/sub/c.txt"}
Contents == {"hello", "world"}
Authors == {"PyGit User <pygit@user.com>"}
Timestamps == {1, 2}
Messages == { << <<"text", "first">> >> }

None == <<"None">>
NotFound == <<"FileNotFoundError">>

\* str.split("/") on the paths of the model
Split(path) ==
    CASE path = "a.txt" -> <<"a.txt">>
      [] path = "b.txt" -> <<"b.txt">>
      [] path = "x.txt" -> <<"x.txt">>
      [] path = "dir/b.txt" -> <<"dir", "b.txt">>
      [] path = "dir/sub/c.txt" -> <<"dir", "sub", "c.txt">>
      [] OTHER -> <<path>>

\* Python's order on the strings of the model (modes and names)
StrOrder == <<"100644", "40000", "a.txt", "b.txt", "c.txt", "dir", "sub", "x.txt">>

StrRank(s) == CHOOSE i \in 1..Len(StrOrder) : StrOrder[i] = s

ContentOrder == <<"", "hello", "world">>

ContentRank(c) == CHOOSE i \in 1..Len(ContentOrder) : ContentOrder[i] = c

(***************************************************************************)
(* GitObject                                                               *)
(***************************************************************************)
\* bytes of one tree chunk: "{mode} {name}\0" and 20 digest bytes
ChunkLen(chunk) == Len(chunk[1]) + 1 + Len(chunk[2]) + 1 + 20

\* characters of one commit line
LineLen(line) ==
    CASE line[1] = "tree" -> 5 + 40
      [] line[1] = "parent" -> 7 + 40
      [] line[1] = "author" -> 7 + Len(line[2]) + 1 + 1 + 6
      [] line[1] = "committer" -> 10 + Len(line[2]) + 1 + 1 + 6
      [] OTHER -> Len(line[2])

RECURSIVE ChunksLen(_)
ChunksLen(chunks) ==
    IF chunks = <<>> THEN 0 ELSE ChunkLen(Head(chunks)) + ChunksLen(Tail(chunks))

RECURSIVE LinesLen(_)
LinesLen(lines) ==
    IF lines = <<>> THEN 0 ELSE LineLen(Head(lines)) + LinesLen(Tail(lines))

\* len(content)
ContentLen(type, content) ==
    CASE type = "blob" -> Len(content)
      [] type = "tree" -> ChunksLen(content)
      [] OTHER -> LinesLen(content) + (IF content = <<>> THEN 0 ELSE Len(content) - 1)

GitObject(obj_type, content) == [type |-> obj_type, content |-> content]

Header(obj) == <<obj.type, ContentLen(obj.type, obj.content)>>

\* hashlib.sha1(data).hexdigest() of data = header ++ content
SHA1(header, content) == <<header[1], header[2], content>>

GitHash(obj) == SHA1(Header(obj), obj.content)

\* zlib.compress / zlib.decompress of header ++ content
Compress(header, content) == <<"zlib", header, content>>

Decompress(data) == <<data[2], data[3]>>

serialize(obj) == Compress(Header(obj), obj.content)

\* deserialize that ignores the type of the header
deserialize_as_blob(data) == GitObject("blob", Decompress(data)[2])

deserialize(data) ==
    LET decompressed == Decompress(data)
        header == decompressed[1]
        content == decompressed[2]
        obj_type == header[1]
    IN  GitObject(obj_type, content)

Blob(content) == GitObject("blob", content)

(***************************************************************************)
(* Tree                                                                    *)
(***************************************************************************)
\* order of hex digests; total on the digests that meet under one
\* (mode, name) in this model
HexRank(h) ==
    CASE h[1] = "blob" -> ContentRank(h[3])
      [] h[1] = "tree" -> 100 + h[2]
      [] OTHER -> 1000 + h[2]

\* Python's tuple order on (mode, name, obj_hash)
EntryLess(e1, e2) ==
    \/ StrRank(e1[1]) < StrRank(e2[1])
    \/ /\ e1[1] = e2[1]
       /\ \/ StrRank(e1[2]) < StrRank(e2[2])
          \/ e1[2] = e2[2] /\ HexRank(e1[3]) < HexRank(e2[3])

RECURSIVE Insert(_, _)
Insert(e, sortedSeq) ==
    IF sortedSeq = <<>> THEN <<e>>
    ELSE IF EntryLess(e, Head(sortedSeq)) THEN <<e>> \o sortedSeq
    ELSE <<Head(sortedSeq)>> \o Insert(e, Tail(sortedSeq))

\* entries serialized in the order given
unsorted(entries) == entries

\* sorted(entries)
RECURSIVE sorted(_)
sorted(entries) ==
    IF entries = <<>> THEN <<>>
    ELSE Insert(entries[Len(entries)], sorted(SubSeq(entries, 1, Len(entries) - 1)))

\* bytes.fromhex / bytes.hex
FromHex(obj_hash) == <<"raw", obj_hash>>

ToHex(raw) == raw[2]

serialize_entries(entries) ==
    LET s == sorted(entries)
    IN  [i \in 1..Len(s) |-> <<s[i][1], s[i][2], FromHex(s[i][3])>>]

Tree(entries) ==
    [type |-> "tree", content |-> serialize_entries(entries), entries |-> entries]

add_entry(tree, mode, name, obj_hash) ==
    LET entries == Append(tree.entries, <<mode, name, obj_hash>>)
    IN  [tree EXCEPT !.entries = entries, !.content = serialize_entries(entries)]

(***************************************************************************)
(* Commit                                                                  *)
(***************************************************************************)
\* _serialize_commit writing one parent line at most
serialize_commit_one_parent(tree_hash, parent_hashes, author, committer, message, timestamp) ==
    << <<"tree", tree_hash>> >>
    \o (IF parent_hashes = <<>> THEN <<>> ELSE << <<"parent", parent_hashes[1]>> >>)
    \o << <<"author", author, timestamp>>,
          <<"committer", committer, timestamp>>,
          <<"text", "">> >>
    \o message

serialize_commit(tree_hash, parent_hashes, author, committer, message, timestamp) ==
    << <<"tree", tree_hash>> >>
    \o [i \in 1..Len(parent_hashes) |-> <<"parent", parent_hashes[i]>>]
    \o << <<"author", author, timestamp>>,
          <<"committer", committer, timestamp>>,
          <<"text", "">> >>
    \o message

Commit(tree_hash, parent_hashes, author, committer, message, timestamp) ==
    [type |-> "commit",
     content |-> serialize_commit(tree_hash, parent_hashes, author, committer,
                                  message, timestamp),
     tree_hash |-> tree_hash,
     parent_hashes |-> parent_hashes,
     author |-> author,
     committer |-> committer,
     message |-> message,
     timestamp |-> timestamp]

\* the header lines the loop of from_content reads: the lines before the
\* first blank line
RECURSIVE HeaderLines(_)
HeaderLines(lines) ==
    IF lines = <<>> \/ Head(lines) = <<"text", "">> THEN <<>>
    ELSE <<Head(lines)>> \o HeaderLines(Tail(lines))

RECURSIVE LinesOf(_, _)
LinesOf(lines, prefix) ==
    IF lines = <<>> THEN <<>>
    ELSE (IF Head(lines)[1] = prefix THEN <<Head(lines)>> ELSE <<>>)
         \o LinesOf(Tail(lines), prefix)

\* the value the loop leaves in a variable set by the lines with this prefix
LastOf(lines, prefix, field) ==
    LET ls == LinesOf(lines, prefix)
    IN  IF ls = <<>> THEN None ELSE ls[Len(ls)][field]

\* index of the first line of the message, as from_content uses it
message_start == 0

from_content(content) ==
    LET lines == content
        hdr == HeaderLines(lines)
        tree_hash == LastOf(hdr, "tree", 2)
        parents == LinesOf(hdr, "parent")
        parent_hashes == [i \in 1..Len(parents) |-> parents[i][2]]
        author == LastOf(hdr, "author", 2)
        timestamp == LastOf(hdr, "author", 3)
        committer == LastOf(hdr, "committer", 2)
        message == SubSeq(lines, message_start + 1, Len(lines))
    IN  Commit(tree_hash, parent_hashes, author, committer, message, timestamp)

(***************************************************************************)
(* Repository: object store                                                *)
(***************************************************************************)
\* store_object with the test on obj_file.exists() inverted
store_object_inverted(objs, obj) ==
    LET obj_hash == GitHash(obj)
    IN  [hash |-> obj_hash,
         objs |-> IF obj_hash \in DOMAIN objs
                  THEN [h \in DOMAIN objs |->
                           IF h = obj_hash THEN serialize(obj) ELSE objs[h]]
                  ELSE objs]

\* store_object: the object's hash and the object files after the call
store_object(objs, obj) ==
    LET obj_hash == GitHash(obj)
    IN  [hash |-> obj_hash,
         objs |-> IF obj_hash \notin DOMAIN objs
                  THEN [h \in DOMAIN objs \cup {obj_hash} |->
                           IF h = obj_hash THEN serialize(obj) ELSE objs[h]]
                  ELSE objs]

\* load_object: <<"obj", the object>>, or the FileNotFoundError it raises
load_object(objs, obj_hash) ==
    IF obj_hash \notin DOMAIN objs THEN NotFound
    ELSE <<"obj", deserialize(objs[obj_hash])>>

(***************************************************************************)
(* Repository: tree builder                                                *)
(***************************************************************************)
Keys(d) == {d[i][1] : i \in 1..Len(d)}

DictGet(d, k) == d[CHOOSE i \in 1..Len(d) : d[i][1] = k][2]

\* d[k] = v
DictSet(d, k, v) ==
    IF k \in Keys(d)
    THEN [i \in 1..Len(d) |-> IF d[i][1] = k THEN <<k, v>> ELSE d[i]]
    ELSE Append(d, <<k, v>>)

Str(h) == <<"str", h>>

Dict(d) == <<"dict", d>>

\* the nested dict after walking parts from current and setting the last
\* part to blob_hash
RECURSIVE InsertPath(_, _, _)
InsertPath(current, parts, blob_hash) ==
    IF Len(parts) = 1 THEN DictSet(current, parts[1], Str(blob_hash))
    ELSE LET sub == IF parts[1] \in Keys(current)
                    THEN DictGet(current, parts[1])[2]
                    ELSE <<>>
         IN  DictSet(current, parts[1], Dict(InsertPath(sub, Tail(parts), blob_hash)))

\* the dicts files and dirs after the loop over index.items()
RECURSIVE FilesOf(_)
FilesOf(items) ==
    IF items = <<>> THEN <<>>
    ELSE LET rest == FilesOf(SubSeq(items, 1, Len(items) - 1))
             item == items[Len(items)]
             parts == Split(item[1])
         IN  IF Len(parts) = 1 THEN DictSet(rest, parts[1], Str(item[2])) ELSE rest

RECURSIVE DirsOf(_)
DirsOf(items) ==
    IF items = <<>> THEN <<>>
    ELSE LET rest == DirsOf(SubSeq(items, 1, Len(items) - 1))
             item == items[Len(items)]
             parts == Split(item[1])
         IN  IF Len(parts) = 1 THEN rest ELSE InsertPath(rest, parts, item[2])

\* root_entries = {**files}, then root_entries[dir_name] = dir_contents
RECURSIVE Merge(_, _)
Merge(root, dirs) ==
    IF dirs = <<>> THEN root
    ELSE Merge(DictSet(root, Head(dirs)[1], Head(dirs)[2]), Tail(dirs))

\* create_tree_recursive: the loop body runs for the first item and returns
\* from inside the loop; an empty dict falls off the end and gives None
RECURSIVE create_tree_recursive(_, _)
create_tree_recursive(objs, entries_dict) ==
    IF entries_dict = <<>> THEN [hash |-> None, objs |-> objs]
    ELSE LET name == entries_dict[1][1]
             value == entries_dict[1][2]
             tree == Tree(<<>>)
         IN  IF value[1] = "str"
             THEN store_object(objs, add_entry(tree, "100644", name, value[2]))
             ELSE LET sub == create_tree_recursive(objs, value[2])
                  IN  store_object(sub.objs, add_entry(tree, "40000", name, sub.hash))

\* create_tree_from_index that computes the hashes and writes no tree
create_tree_from_index_unstored(objs, idx) ==
    LET r == IF idx = <<>> THEN store_object(objs, Tree(<<>>))
             ELSE create_tree_recursive(objs, Merge(FilesOf(idx), DirsOf(idx)))
    IN  [hash |-> r.hash, objs |-> objs]

create_tree_from_index(objs, idx) ==
    IF idx = <<>> THEN store_object(objs, Tree(<<>>))
    ELSE create_tree_recursive(objs, Merge(FilesOf(idx), DirsOf(idx)))

(***************************************************************************)
(* Repository: refs                                                        *)
(***************************************************************************)
get_current_branch(head) ==
    IF head = None THEN "master"
    ELSE IF head[1] = "ref" THEN head[2]
    ELSE "HEAD"

get_branch_commit(rf, current_branch) ==
    IF current_branch \in DOMAIN rf THEN rf[current_branch] ELSE None

\* set_branch_commit that writes nothing
set_branch_commit_skipped(rf, current_branch, commit_hash) == rf

set_branch_commit(rf, current_branch, commit_hash) ==
    [b \in DOMAIN rf \cup {current_branch} |->
        IF b = current_branch THEN commit_hash ELSE rf[b]]

\* index[path] = blob_hash
IndexSet(idx, path, blob_hash) == DictSet(idx, path, blob_hash)

(***************************************************************************)
(* Repository: index file                                                  *)
(***************************************************************************)
\* load_index: the dict read from the index file
load_index(index_file) == index_file

\* save_index that writes nothing
save_index_skipped(index_file, idx) == index_file

\* save_index: the index file after writing the dict
save_index(index_file, idx) == idx

(***************************************************************************)
(* Repository: commit                                                      *)
(***************************************************************************)
\* commit that never records a parent
parent_hashes_none(parent_commit) == <<>>

\* parent_hashes = [parent_commit] if parent_commit else []
parent_hashes_of(parent_commit) ==
    IF parent_commit # None THEN <<parent_commit>> ELSE <<>>

\* commit without the test for an empty index
nothing_to_commit_tree_only(objs, idx, parent_commit, tree_hash) ==
    /\ parent_commit # None
    /\ tree_hash = from_content(load_object(objs, parent_commit)[2].content).tree_hash

\* the two tests of commit that end in "Nothing to commit"
nothing_to_commit(objs, idx, parent_commit, tree_hash) ==
    \/ idx = <<>>
    \/ /\ parent_commit # None
       /\ LET parent_commit_obj == load_object(objs, parent_commit)[2]
              parent_commit_data == from_content(parent_commit_obj.content)
          IN  tree_hash = parent_commit_data.tree_hash

\* commit that leaves the index file as it is
index_kept(index_file) == index_file

\* self.save_index({}) at the end of commit
index_after_commit(index_file) == save_index(index_file, <<>>)

\* commit: the object files, index file and refs after the call, and its result
commit(objs, index_file, head, rf, message, author, timestamp) ==
    LET t == create_tree_from_index(objs, load_index(index_file))
        tree_hash == t.hash
        current_branch == get_current_branch(head)
        parent_commit == get_branch_commit(rf, current_branch)
        parent_hashes == parent_hashes_of(parent_commit)
        idx == load_index(index_file)
    IN  IF nothing_to_commit(t.objs, idx, parent_commit, tree_hash)
        THEN [objs |-> t.objs, index |-> index_file, refs |-> rf, ret |-> None]
        ELSE LET c == Commit(tree_hash, parent_hashes, author, author, message, timestamp)
                 st == store_object(t.objs, c)
             IN  [objs |-> st.objs,
                  index |-> index_after_commit(index_file),
                  refs |-> set_branch_commit(rf, current_branch, st.hash),
                  ret |-> st.hash]

(***************************************************************************)
(* Initial state: no repository                                            *)
(***************************************************************************)
NoObject == [type |-> "none", content |-> ""]

\* the concurrent invocations, and one that has not started
Procs == {1, 2}

Idle == [pc |-> "idle", kind |-> "none", path |-> "", obj |-> NoObject,
         wrote |-> FALSE, index |-> <<>>, ret |-> None]

Init ==
    /\ exists = FALSE
    /\ HEAD = None
    /\ objects = <<>>
    /\ index = <<>>
    /\ refs = <<>>
    /\ op = "new"
    /\ arg = None
    /\ ret = None
    /\ orig = NoObject
    /\ log = <<>>
    /\ treeA = Tree(<<>>)
    /\ treeB = Tree(<<>>)
    /\ procs = [p \in Procs |-> Idle]

treeVars == <<treeA, treeB>>

(***************************************************************************)
(* Commands: init, add <path>, commit -m <message>                         *)
(***************************************************************************)
\* init that clears the objects directory of an existing repository
RepoInit_clearing ==
    /\ op' = "init"
    /\ arg' = None
    /\ IF exists
       THEN /\ ret' = <<"False">>
            /\ objects' = <<>>
            /\ UNCHANGED <<exists, HEAD, index, refs>>
       ELSE /\ exists' = TRUE
            /\ HEAD' = <<"ref", "main">>
            /\ index' = save_index(index, <<>>)
            /\ ret' = <<"True">>
            /\ UNCHANGED <<objects, refs>>
    /\ UNCHANGED <<orig, log, treeVars, procs>>

RepoInit ==
    /\ op' = "init"
    /\ arg' = None
    /\ IF exists
       THEN /\ ret' = <<"False">>
            /\ UNCHANGED repoVars
       ELSE /\ exists' = TRUE
            /\ HEAD' = <<"ref", "main">>
            /\ index' = save_index(index, <<>>)
            /\ ret' = <<"True">>
            /\ UNCHANGED <<objects, refs>>
    /\ UNCHANGED <<orig, log, treeVars, procs>>

\* add_file on a path that exists, holding content
AddFile(path, content) ==
    /\ exists
    /\ LET st == store_object(objects, Blob(content))
           idx == load_index(index)
       IN  /\ Cardinality(DOMAIN st.objs) <= MaxObjects
           /\ objects' = st.objs
           /\ index' = save_index(index, IndexSet(idx, path, st.hash))
    /\ op' = "add_file"
    /\ arg' = None
    /\ ret' = None
    /\ UNCHANGED <<exists, HEAD, refs, orig, log, treeVars, procs>>

\* the regular files of the working directory, in the order rglob yields
\* them, and the directories add_directory is called on
WorkFiles == <<".pygit/HEAD", "a.txt", "dir/b.txt", "dir/sub/c.txt">>

Dirs == {".", "dir"}

\* file_path.parts, below the repository's directory
Parts(file) ==
    IF file = ".pygit/HEAD" THEN <<".pygit", "HEAD">> ELSE Split(file)

\* full_path.rglob("*"), the regular files only
RECURSIVE FilesUnder(_, _)
FilesUnder(dir, files) ==
    IF files = <<>> THEN <<>>
    ELSE (IF dir = "." \/ Parts(Head(files))[1] = dir THEN <<Head(files)>> ELSE <<>>)
         \o FilesUnder(dir, Tail(files))

\* what the files hold when add_directory reads them
WorkContents ==
    [f \in {"a.txt", "dir/b.txt", "dir/sub/c.txt"} |->
        IF f = "dir/b.txt" THEN "world" ELSE "hello"]

ContentMaps ==
    { [f \in {"a.txt", "dir/b.txt", "dir/sub/c.txt"} |-> "hello"],
      [f \in {"a.txt", "dir/b.txt", "dir/sub/c.txt"} |-> "world"],
      WorkContents }

\* truth value of a Python string
Truthy(str) == str # ""

\* if ".pygit" or ".git" in file_path.parts
skip_test(parts) ==
    Truthy(".pygit") \/ ".git" \in {parts[i] : i \in 1..Len(parts)}

\* the loop of add_directory over the files: object files and local dict
RECURSIVE add_directory_loop(_, _, _, _)
add_directory_loop(objs, idx, files, content_of) ==
    IF files = <<>> THEN [objs |-> objs, index |-> idx]
    ELSE IF skip_test(Parts(Head(files)))
    THEN add_directory_loop(objs, idx, Tail(files), content_of)
    ELSE LET st == store_object(objs, Blob(content_of[Head(files)]))
         IN  add_directory_loop(st.objs, IndexSet(idx, Head(files), st.hash),
                                Tail(files), content_of)

\* add_directory on a directory that exists
AddDirectory(dir, content_of) ==
    /\ exists
    /\ LET r == add_directory_loop(objects, load_index(index),
                                   FilesUnder(dir, WorkFiles), content_of)
       IN  /\ Cardinality(DOMAIN r.objs) <= MaxObjects
           /\ objects' = r.objs
           /\ index' = save_index(index, r.index)
    /\ op' = "add_directory"
    /\ arg' = <<"add_directory", dir, content_of>>
    /\ ret' = None
    /\ UNCHANGED <<exists, HEAD, refs, orig, log, treeVars, procs>>

\* add_path on a path that does not exist
AddMissing(path) ==
    /\ exists
    /\ op' = "add_path"
    /\ arg' = None
    /\ ret' = NotFound
    /\ UNCHANGED <<repoVars, orig, log, treeVars, procs>>

CommitCall(message, author, timestamp) ==
    /\ exists
    /\ LET r == commit(objects, index, HEAD, refs, message, author, timestamp)
       IN  /\ Cardinality(DOMAIN r.objs) <= MaxObjects
           /\ r.ret # None => Len(log) < MaxCommits
           /\ objects' = r.objs
           /\ index' = r.index
           /\ refs' = r.refs
           /\ ret' = r.ret
           /\ log' = IF r.ret # None THEN Append(log, r.ret) ELSE log
    /\ op' = "commit"
    /\ arg' = None
    /\ UNCHANGED <<exists, HEAD, orig, treeVars, procs>>

Next ==
    \/ RepoInit
    \/ \E path \in Paths, content \in Contents : AddFile(path, content)
    \/ \E path \in Paths : AddMissing(path)
    \/ \E message \in Messages, author \in Authors, timestamp \in Timestamps :
          CommitCall(message, author, timestamp)

Spec == Init /\ [][Next]_vars

\* every command of the CLI: init, add of a file, of a directory, of a
\* missing path, and commit
NextRepo ==
    \/ Next
    \/ \E dir \in Dirs : AddDirectory(dir, WorkContents)

SpecRepo == Init /\ [][NextRepo]_vars

(***************************************************************************)
(* Direct calls of Repository and Commit methods                           *)
(***************************************************************************)
HashHello == GitHash(Blob("hello"))

HashWorld == GitHash(Blob("world"))

EmptyTreeHash == GitHash(Tree(<<>>))

TestEntries ==
    { <<"100644", "a.txt", HashHello>>,
      <<"100644", "a.txt", HashWorld>>,
      <<"100644", "b.txt", HashHello>>,
      <<"40000", "dir", EmptyTreeHash>> }

LongMessage == << <<"text", "fix">>, <<"text", "">>, <<"text", "details">> >>

Commit0 ==
    Commit(EmptyTreeHash, <<>>, "A U Thor <a@b.c>", "A U Thor <a@b.c>",
           << <<"text", "first">> >>, 1)

Commit1 ==
    Commit(EmptyTreeHash, <<>>, "A U Thor <a@b.c>", "A U Thor <a@b.c>", LongMessage, 2)

TestCommits ==
    { Commit0, Commit1,
      Commit(EmptyTreeHash, <<GitHash(Commit0)>>, "A U Thor <a@b.c>", "A U Thor <a@b.c>",
             LongMessage, 2),
      Commit(EmptyTreeHash, <<GitHash(Commit0), GitHash(Commit1)>>, "A U Thor <a@b.c>",
             "A U Thor <a@b.c>", << <<"text", "merge">> >>, 2),
      Commit(EmptyTreeHash, <<GitHash(Commit1), GitHash(Commit0)>>, "A U Thor <a@b.c>",
             "A U Thor <a@b.c>", << <<"text", "merge">> >>, 2) }

TestObjects ==
    {Blob(c) : c \in Contents}
    \cup {Tree(<<>>), Tree(<< <<"100644", "b.txt", HashHello>>, <<"100644", "a.txt", HashWorld>> >>)}
    \cup TestCommits

StoreObjectCall(obj) ==
    /\ exists
    /\ LET st == store_object(objects, obj)
       IN  /\ Cardinality(DOMAIN st.objs) <= MaxObjects
           /\ objects' = st.objs
           /\ ret' = st.hash
    /\ op' = "store_object"
    /\ arg' = IF GitHash(obj) \in DOMAIN objects THEN <<"exists">> ELSE <<"new">>
    /\ orig' = obj
    /\ UNCHANGED <<exists, HEAD, index, refs, log, treeVars, procs>>

LoadObjectCall(obj_hash) ==
    /\ exists
    /\ op' = "load_object"
    /\ arg' = obj_hash
    /\ ret' = load_object(objects, obj_hash)
    /\ UNCHANGED <<repoVars, orig, log, treeVars, procs>>

\* Commit.from_content on the content of the commit object just loaded
FromContentCall ==
    /\ op = "load_object"
    /\ ret # NotFound
    /\ ret[2].type = "commit"
    /\ op' = "from_content"
    /\ ret' = <<"commit", from_content(ret[2].content)>>
    /\ UNCHANGED <<repoVars, arg, orig, log, treeVars, procs>>

CreateTreeCall ==
    /\ exists
    /\ LET t == create_tree_from_index(objects, load_index(index))
       IN  /\ Cardinality(DOMAIN t.objs) <= MaxObjects
           /\ objects' = t.objs
           /\ ret' = t.hash
    /\ op' = "create_tree_from_index"
    /\ arg' = None
    /\ UNCHANGED <<exists, HEAD, index, refs, orig, log, treeVars, procs>>

\* store_object, load_object and Commit.from_content called directly
NextStore ==
    \/ RepoInit
    \/ \E obj \in TestObjects : StoreObjectCall(obj)
    \/ \E obj_hash \in DOMAIN objects \cup {GitHash(o) : o \in TestObjects} :
          LoadObjectCall(obj_hash)
    \/ FromContentCall

SpecStore == Init /\ [][NextStore]_vars

\* create_tree_from_index called directly on staged files
NextBuild ==
    \/ RepoInit
    \/ \E path \in Paths, content \in Contents : AddFile(path, content)
    \/ \E dir \in Dirs, content_of \in ContentMaps : AddDirectory(dir, content_of)
    \/ CreateTreeCall

SpecBuild == Init /\ [][NextBuild]_vars

(***************************************************************************)
(* Building Trees                                                          *)
(***************************************************************************)
EntryLists == UNION {[1..n -> TestEntries] : n \in 0..MaxEntries}

\* treeA = Tree(entries)
NewTreeA(entries) ==
    /\ treeA' = Tree(entries)
    /\ op' = "Tree"
    /\ UNCHANGED <<repoVars, arg, ret, orig, log, treeB, procs>>

\* treeA.add_entry(mode, name, obj_hash)
AddEntryA(e) ==
    /\ Len(treeA.entries) < MaxEntries
    /\ treeA' = add_entry(treeA, e[1], e[2], e[3])
    /\ op' = "add_entry"
    /\ UNCHANGED <<repoVars, arg, ret, orig, log, treeB, procs>>

\* treeB.add_entry(mode, name, obj_hash)
AddEntryB(e) ==
    /\ Len(treeB.entries) < MaxEntries
    /\ treeB' = add_entry(treeB, e[1], e[2], e[3])
    /\ op' = "add_entry"
    /\ UNCHANGED <<repoVars, arg, ret, orig, log, treeA, procs>>

\* the entries Tree.from_content reads: after each NUL, 20 bytes as the hash
ParsedEntries(content) ==
    [i \in 1..Len(content) |-> <<content[i][1], content[i][2], ToHex(content[i][3])>>]

\* Tree.from_content: the entries are appended to the list of an empty Tree,
\* whose content stays as the constructor left it
tree_from_content(content) ==
    LET tree == Tree(<<>>)
    IN  [tree EXCEPT !.entries = tree.entries \o ParsedEntries(content)]

\* treeB = Tree.from_content(treeA.content)
ParseTreeA ==
    /\ treeB' = tree_from_content(treeA.content)
    /\ op' = "Tree.from_content"
    /\ UNCHANGED <<repoVars, arg, ret, orig, log, treeA, procs>>

NextTree ==
    \/ \E entries \in EntryLists : NewTreeA(entries)
    \/ \E e \in TestEntries : AddEntryA(e)
    \/ \E e \in TestEntries : AddEntryB(e)

SpecTree == Init /\ [][NextTree]_vars

\* Trees built, serialized and parsed back
NextParse ==
    \/ \E entries \in EntryLists : NewTreeA(entries)
    \/ \E e \in TestEntries : AddEntryA(e)
    \/ \E e \in TestEntries : AddEntryB(e)
    \/ ParseTreeA

SpecParse == Init /\ [][NextParse]_vars

(***************************************************************************)
(* Properties                                                              *)
(***************************************************************************)
\* the staged items as <<path segments, blob hash>>
Segments(idx) == [i \in 1..Len(idx) |-> <<Split(idx[i][1]), idx[i][2]>>]

FirstSegments(items) == {items[i][1][1] : i \in 1..Len(items)}

IsFile(items, name) == \E i \in 1..Len(items) : items[i][1] = <<name>>

FileHash(items, name) == items[CHOOSE i \in 1..Len(items) : items[i][1] = <<name>>][2]

\* the items below directory name, with that segment removed
RECURSIVE Below(_, _)
Below(items, name) ==
    IF items = <<>> THEN <<>>
    ELSE (IF Head(items)[1][1] = name /\ Len(Head(items)[1]) > 1
          THEN << <<Tail(Head(items)[1]), Head(items)[2]>> >>
          ELSE <<>>)
         \o Below(Tail(items), name)

\* obj_hash names a stored tree with exactly one entry per first segment of
\* the items: a file entry with the blob hash, or a subtree entry whose tree
\* matches the items below it
RECURSIVE TreeMatches(_, _, _)
TreeMatches(objs, obj_hash, items) ==
    /\ obj_hash \in DOMAIN objs
    /\ LET t == load_object(objs, obj_hash)[2]
       IN  /\ t.type = "tree"
           /\ Len(t.content) = Cardinality(FirstSegments(items))
           /\ \A name \in FirstSegments(items) :
                 \E i \in 1..Len(t.content) :
                    LET chunk == t.content[i]
                    IN  /\ chunk[2] = name
                        /\ IF IsFile(items, name)
                           THEN /\ chunk[1] = "100644"
                                /\ ToHex(chunk[3]) = FileHash(items, name)
                           ELSE /\ chunk[1] = "40000"
                                /\ TreeMatches(objs, ToHex(chunk[3]), Below(items, name))

\* C1: for a non-empty index, create_tree_from_index returns the hash of a
\* stored root tree with exactly one entry per distinct first path segment
\* (file entries with the blob hash, subtree entries with the hash of the
\* subtree built the same way), at every directory level.
C1_TreeHasEveryEntry ==
    (op = "create_tree_from_index" /\ index # <<>>)
        => TreeMatches(objects, ret, Segments(index))

\* C2: a commit call that ends in "nothing to commit" creates no object: the
\* set of object files is the same after the call as before it.
C2_NoOpCreatesNoObject ==
    [][(op' = "commit" /\ ret' = None) => DOMAIN objects' = DOMAIN objects]_vars

\* C3: a commit call right after a commit call that created a commit returns
\* nothing to commit and leaves the branch ref at the first commit's hash.
C3_SecondCommitIsNoOp ==
    [][(op = "commit" /\ ret # None /\ op' = "commit")
          => (ret' = None /\ refs' = refs /\ refs'["main"] = ret)]_vars

C3_Witness ==
    /\ op = "commit"
    /\ ret = None
    /\ index = <<>>
    /\ log # <<>>
    /\ "main" \in DOMAIN refs
    /\ refs["main"] = log[Len(log)]

\* the commits met when following parent hashes from obj_hash for at most
\* fuel commits, newest first; None marks a missing commit, a second parent
\* or a chain longer than fuel
RECURSIVE ChainFrom(_, _, _)
ChainFrom(objs, obj_hash, fuel) ==
    IF fuel = 0 \/ obj_hash \notin DOMAIN objs THEN <<None>>
    ELSE LET c == from_content(load_object(objs, obj_hash)[2].content)
         IN  IF c.parent_hashes = <<>> THEN <<obj_hash>>
             ELSE IF Len(c.parent_hashes) = 1
                  THEN <<obj_hash>> \o ChainFrom(objs, c.parent_hashes[1], fuel - 1)
                  ELSE <<obj_hash, None>>

Reverse(seq) == [i \in 1..Len(seq) |-> seq[Len(seq) + 1 - i]]

\* C4: following parent hashes from the branch ref visits exactly the commits
\* created by the commit calls, newest first, and ends at a commit with no
\* parent; without a commit there is no branch ref.
C4_HistoryIsChain ==
    IF "main" \in DOMAIN refs
    THEN log # <<>> /\ ChainFrom(objects, refs["main"], Len(log)) = Reverse(log)
    ELSE log = <<>>

C4_Witness ==
    /\ Len(log) = 2
    /\ "main" \in DOMAIN refs
    /\ refs["main"] = log[2]

\* C5: a commit call that creates a commit leaves the index empty; a commit
\* call that ends in nothing to commit leaves the index as it was.
C5_IndexAfterCommit ==
    [][op' = "commit"
          => /\ ret' # None => index' = <<>>
             /\ ret' = None => index' = index]_vars

C5_Witness ==
    /\ op = "commit"
    /\ ret = None
    /\ index # <<>>
    /\ "main" \in DOMAIN refs

\* the object files that hold a blob of this content
FilesOfBlob(objs, content) ==
    {h \in DOMAIN objs :
        LET o == deserialize(objs[h]) IN o.type = "blob" /\ o.content = content}

\* C6: store_object on a Blob returns the blob's hash and leaves exactly one
\* object file holding it; a call for a blob already stored changes nothing,
\* and two calls in a row for the same blob return the same hash.
C6_StoreBlobTwice ==
    [][(op' = "store_object" /\ orig'.type = "blob")
          => /\ ret' = GitHash(Blob(orig'.content))
             /\ Cardinality(FilesOfBlob(objects', orig'.content)) = 1
             /\ ret' \in DOMAIN objects => objects' = objects
             /\ (op = "store_object" /\ orig.type = "blob" /\ orig.content = orig'.content)
                   => (ret' = ret /\ objects' = objects)]_vars

C6_Witness ==
    /\ op = "store_object"
    /\ orig.type = "blob"
    /\ arg = <<"exists">>
    /\ Cardinality(FilesOfBlob(objects, orig.content)) = 1

\* C7: load_object of the hash store_object just returned gives an object with
\* the stored object's type and content; load_object of a hash with no object
\* file raises FileNotFoundError and changes nothing.
C7_LoadAfterStore ==
    [][/\ (op = "store_object" /\ op' = "load_object" /\ arg' = ret)
            => /\ ret' # NotFound
               /\ ret'[2].type = orig.type
               /\ ret'[2].content = orig.content
       /\ (op' = "load_object" /\ arg' \notin DOMAIN objects)
            => (ret' = NotFound /\ UNCHANGED repoVars)]_vars

C7_Witness ==
    /\ op = "load_object"
    /\ orig.type = "commit"
    /\ arg = GitHash(orig)
    /\ ret # NotFound
    /\ ret[2].type = "commit"
    /\ ret[2].content = orig.content

Count(seq, e) == Cardinality({i \in 1..Len(seq) : seq[i] = e})

\* the two lists hold the same entries, in any order
SameEntries(s, t) ==
    /\ Len(s) = Len(t)
    /\ \A e \in TestEntries : Count(s, e) = Count(t, e)

\* C8: two Trees whose entry lists hold the same entries in different orders
\* have the same content and the same hash.
C8_TreeOrderIndependent ==
    SameEntries(treeA.entries, treeB.entries)
        => (treeA.content = treeB.content /\ GitHash(treeA) = GitHash(treeB))

C8_Witness ==
    /\ Len(treeA.entries) = 2
    /\ treeA.entries # treeB.entries
    /\ SameEntries(treeA.entries, treeB.entries)
    /\ GitHash(treeA) = GitHash(treeB)

\* the last from_content call parsed the stored and loaded copy of orig
ParsedOrig ==
    /\ op = "from_content"
    /\ orig.type = "commit"
    /\ arg = GitHash(orig)

\* C9: a Commit that is serialized, stored, loaded and parsed by from_content
\* has the same parent hashes in the same order.
C9_ParentsRoundTrip ==
    ParsedOrig => ret[2].parent_hashes = orig.parent_hashes

C9_Witness ==
    /\ ParsedOrig
    /\ Len(orig.parent_hashes) = 2
    /\ ret[2].parent_hashes = orig.parent_hashes

\* C10: the commit parsed by from_content has the original message, so its
\* content and hash are those of the original commit.
C10_MessageRoundTrip ==
    ParsedOrig
        => /\ ret[2].message = orig.message
           /\ ret[2].content = orig.content
           /\ GitHash(ret[2]) = arg

(***************************************************************************)
(* GitObject.deserialize on given bytes                                    *)
(***************************************************************************)
\* the content without its last byte (blob), chunk (tree) or line (commit)
CutContent(obj) ==
    IF obj.type = "blob"
    THEN (CASE obj.content = "hello" -> "hell"
            [] obj.content = "world" -> "worl"
            [] OTHER -> "")
    ELSE SubSeq(obj.content, 1, Len(obj.content) - 1)

\* well-formed compressed streams whose content is shorter, or longer, than
\* the length the header declares
ShortData(obj) == Compress(Header(obj), CutContent(obj))

LongData(obj) == Compress(Header(GitObject(obj.type, CutContent(obj))), obj.content)

TestData ==
    {serialize(o) : o \in TestObjects}
    \cup {ShortData(o) : o \in TestObjects \ {Tree(<<>>)}}
    \cup {LongData(o) : o \in TestObjects \ {Tree(<<>>)}}

DeclaredLen(data) == Decompress(data)[1][2]

ActualLen(data) == ContentLen(Decompress(data)[1][1], Decompress(data)[2])

DeserializeCall(data) ==
    /\ op' = "deserialize"
    /\ arg' = data
    /\ ret' = <<"obj", deserialize(data)>>
    /\ UNCHANGED <<repoVars, orig, log, treeVars, procs>>

NextDeser ==
    \/ RepoInit
    \/ \E obj \in {Blob(c) : c \in Contents} \cup {Commit0} : StoreObjectCall(obj)
    \/ \E data \in TestData \cup {objects[h] : h \in DOMAIN objects} : DeserializeCall(data)

SpecDeser == Init /\ [][NextDeser]_vars

\* C11: deserialize fails with a corruption error whenever the number of
\* bytes after the first NUL differs from the length the header declares; it
\* returns an object only when the two agree.
C11_DeserializeValidatesLength ==
    op = "deserialize"
        => IF DeclaredLen(arg) # ActualLen(arg)
           THEN ret = <<"Corrupt">>
           ELSE ret[1] = "obj"

\* two entries of the list share a name and differ in the hash
Diverging(entries) ==
    \E i, j \in 1..Len(entries) :
        entries[i][2] = entries[j][2] /\ entries[i][3] # entries[j][3]

\* C12: no Tree holds two entries with the same name and different hashes:
\* building one fails, so none is ever serialized or hashed.
C12_NoDivergingNames ==
    ~Diverging(treeA.entries) /\ ~Diverging(treeB.entries)

\* C19: the Tree parsed from a Tree's content has the same entries, the same
\* content and the same hash.
C19_TreeParseInverse ==
    op = "Tree.from_content"
        => /\ SameEntries(treeB.entries, treeA.entries)
           /\ treeB.content = treeA.content
           /\ GitHash(treeB) = GitHash(treeA)

(***************************************************************************)
(* init, add x.txt, commit                                                 *)
(***************************************************************************)
E2EPaths == {"x.txt", "dir/b.txt"}

NextE2E ==
    \/ RepoInit
    \/ \E path \in E2EPaths, content \in Contents : AddFile(path, content)
    \/ \E message \in Messages, author \in Authors, timestamp \in Timestamps :
          CommitCall(message, author, timestamp)

SpecE2E == Init /\ [][NextE2E]_vars

\* the repository after init and add x.txt, the file holding "hello"
E2EStaged ==
    /\ exists
    /\ DOMAIN objects = {HashHello}
    /\ index = << <<"x.txt", HashHello>> >>
    /\ refs = <<>>

\* main's ref names a stored commit without parents whose tree has the one
\* entry (100644, x.txt, h), and h names a stored blob holding "hello"
E2ECommitted ==
    /\ "main" \in DOMAIN refs
    /\ LET c == load_object(objects, refs["main"])
       IN  /\ c # NotFound
           /\ c[2].type = "commit"
           /\ LET parsed == from_content(c[2].content)
                  t == load_object(objects, parsed.tree_hash)
              IN  /\ parsed.parent_hashes = <<>>
                  /\ t # NotFound
                  /\ t[2].type = "tree"
                  /\ LET entries == tree_from_content(t[2].content).entries
                     IN  /\ Len(entries) = 1
                         /\ entries[1][1] = "100644"
                         /\ entries[1][2] = "x.txt"
                         /\ LET b == load_object(objects, entries[1][3])
                            IN  /\ b # NotFound
                                /\ b[2].type = "blob"
                                /\ b[2].content = "hello"

\* C13: from no repository, init, add x.txt holding "hello" and commit with
\* message "first" leave main's ref at a stored commit without parents whose
\* tree has exactly one entry, the blob x.txt, whose content is "hello".
C13_EndToEnd ==
    [][(E2EStaged /\ op' = "commit") => (ret' # None /\ E2ECommitted')]_vars

C13_Witness ==
    /\ op = "commit"
    /\ ret # None
    /\ log = <<ret>>
    /\ index = <<>>
    /\ Cardinality(DOMAIN objects) = 3
    /\ E2ECommitted

(***************************************************************************)
(* Concurrent invocations of add_file and store_object                     *)
(*                                                                         *)
(* Each process runs one call, one file system operation per step:         *)
(*   check  obj_file.exists()                                              *)
(*   open   write_bytes opens the object file, which truncates it          *)
(*   write  write_bytes writes the bytes                                   *)
(*   load   load_index, then index[path] = blob_hash on the local dict     *)
(*   save   write_text opens the index file, which truncates it            *)
(*   flush  write_text writes the text                                     *)
(* A truncated index file does not parse, and load_index reads it as {}.   *)
(* wrote records that the call wrote the object file itself.               *)
(***************************************************************************)
ConcPaths == {"a.txt", "dir/b.txt"}

ConcObjects == {Blob(c) : c \in Contents} \cup {Tree(<<>>)}

\* an object file opened for writing and not yet written
EmptyFile == <<"empty">>

\* content of the object file after write_bytes wrote the bytes
written_appended(file, obj) == <<"cat", file, serialize(obj)>>

written_bytes(file, obj) == serialize(obj)

SetProc(p, r) == [procs EXCEPT ![p] = r]

SetFile(h, bytes) ==
    [k \in DOMAIN objects \cup {h} |-> IF k = h THEN bytes ELSE objects[k]]

\* add_file(path) begins: reads the file and makes the Blob
ProcAddFile(p, path, content) ==
    /\ exists
    /\ procs[p].pc = "idle"
    /\ procs' = SetProc(p, [procs[p] EXCEPT !.pc = "check", !.kind = "add_file",
                                           !.path = path, !.obj = Blob(content)])
    /\ UNCHANGED <<repoVars, op, arg, ret, orig, log, treeVars>>

\* store_object(obj) begins
ProcStoreObject(p, obj) ==
    /\ exists
    /\ procs[p].pc = "idle"
    /\ procs' = SetProc(p, [procs[p] EXCEPT !.pc = "check", !.kind = "store_object",
                                           !.obj = obj])
    /\ UNCHANGED <<repoVars, op, arg, ret, orig, log, treeVars>>

\* where a process goes when store_object returns obj_hash
AfterStore(r) ==
    [r EXCEPT !.ret = GitHash(r.obj),
              !.pc = IF r.kind = "store_object" THEN "done" ELSE "load"]

\* if not obj_file.exists()
ProcExists(p) ==
    /\ procs[p].pc = "check"
    /\ procs' = SetProc(p, IF GitHash(procs[p].obj) \in DOMAIN objects
                           THEN AfterStore(procs[p])
                           ELSE [procs[p] EXCEPT !.pc = "open"])
    /\ UNCHANGED <<repoVars, op, arg, ret, orig, log, treeVars>>

ProcOpen(p) ==
    /\ procs[p].pc = "open"
    /\ objects' = SetFile(GitHash(procs[p].obj), EmptyFile)
    /\ procs' = SetProc(p, [procs[p] EXCEPT !.pc = "write"])
    /\ UNCHANGED <<exists, HEAD, index, refs, op, arg, ret, orig, log, treeVars>>

ProcWrite(p) ==
    /\ procs[p].pc = "write"
    /\ LET h == GitHash(procs[p].obj)
       IN  objects' = SetFile(h, written_bytes(objects[h], procs[p].obj))
    /\ procs' = SetProc(p, AfterStore([procs[p] EXCEPT !.wrote = TRUE]))
    /\ UNCHANGED <<exists, HEAD, index, refs, op, arg, ret, orig, log, treeVars>>

\* index = self.load_index(); index[path] = blob_hash
ProcLoadIndex(p) ==
    /\ procs[p].pc = "load"
    /\ procs' = SetProc(p, [procs[p] EXCEPT
                   !.pc = "save",
                   !.index = IndexSet(load_index(index), procs[p].path, procs[p].ret)])
    /\ UNCHANGED <<repoVars, op, arg, ret, orig, log, treeVars>>

ProcSaveOpen(p) ==
    /\ procs[p].pc = "save"
    /\ index' = <<>>
    /\ procs' = SetProc(p, [procs[p] EXCEPT !.pc = "flush"])
    /\ UNCHANGED <<exists, HEAD, objects, refs, op, arg, ret, orig, log, treeVars>>

ProcSaveWrite(p) ==
    /\ procs[p].pc = "flush"
    /\ index' = save_index(index, procs[p].index)
    /\ procs' = SetProc(p, [procs[p] EXCEPT !.pc = "done"])
    /\ UNCHANGED <<exists, HEAD, objects, refs, op, arg, ret, orig, log, treeVars>>

NextConc ==
    \/ RepoInit
    \/ \E p \in Procs, path \in ConcPaths, content \in Contents :
          ProcAddFile(p, path, content)
    \/ \E p \in Procs, obj \in ConcObjects : ProcStoreObject(p, obj)
    \/ \E p \in Procs : ProcExists(p)
    \/ \E p \in Procs : ProcOpen(p)
    \/ \E p \in Procs : ProcWrite(p)
    \/ \E p \in Procs : ProcLoadIndex(p)
    \/ \E p \in Procs : ProcSaveOpen(p)
    \/ \E p \in Procs : ProcSaveWrite(p)

SpecConc == Init /\ [][NextConc]_vars

\* both invocations are add_file calls for different paths and have completed
BothAdded ==
    /\ \A p \in Procs : procs[p].kind = "add_file" /\ procs[p].pc = "done"
    /\ procs[1].path # procs[2].path

\* C14: two concurrent add_file calls for different paths both complete, and
\* the index is then the dict of the call that wrote last: what that call
\* loaded plus its own path. (The witness is the interleaving in which that
\* dict holds one path only.)
C14_LastWriterWins ==
    BothAdded
        => \E p \in Procs :
              /\ index = procs[p].index
              /\ procs[p].path \in Keys(index)
              /\ DictGet(index, procs[p].path) = GitHash(procs[p].obj)

C14_Witness ==
    /\ BothAdded
    /\ Len(index) = 1

\* the store_object call of the process has returned
StoreReturned(p) == procs[p].pc \in {"load", "save", "flush", "done"}

Started == {p \in Procs : procs[p].pc # "idle"}

\* C15: once all concurrent store_object calls have returned, the store holds
\* exactly one file per distinct object hash, holding that object's
\* serialization, and each call returned its object's hash.
C15_ConcurrentStoreSafe ==
    (\A p \in Started : StoreReturned(p))
        => /\ DOMAIN objects = {GitHash(procs[p].obj) : p \in Started}
           /\ \A p \in Started :
                 /\ objects[GitHash(procs[p].obj)] = serialize(procs[p].obj)
                 /\ procs[p].ret = GitHash(procs[p].obj)

C15_Witness ==
    /\ \A p \in Procs : procs[p].kind = "store_object" /\ procs[p].pc = "done"
    /\ \A p \in Procs : procs[p].wrote
    /\ Cardinality(DOMAIN objects) = 1
    /\ \A p \in Procs : objects[GitHash(procs[p].obj)] = serialize(procs[p].obj)

\* the files under the directory that are not inside the metadata directory
Staged(dir) ==
    {f \in {WorkFiles[i] : i \in 1..Len(WorkFiles)} :
        /\ dir = "." \/ Parts(f)[1] = dir
        /\ Parts(f)[1] # ".pygit"}

\* C16: add_directory stores a blob for every regular file under the
\* directory that is not inside the metadata directory and records its
\* path -> blob hash in the index; files inside the metadata directory are
\* not recorded.
C16_AddDirectoryStages ==
    op = "add_directory"
        => /\ \A f \in Staged(arg[2]) :
                 /\ f \in Keys(index)
                 /\ DictGet(index, f) = GitHash(Blob(arg[3][f]))
                 /\ DictGet(index, f) \in DOMAIN objects
           /\ ".pygit/HEAD" \notin Keys(index)

\* the object file under h holds the serialization of an object that hashes to h
FileIsObject(objs, h) ==
    /\ GitHash(deserialize(objs[h])) = h
    /\ serialize(deserialize(objs[h])) = objs[h]

\* C17: across init (repeated init included), staging and commit, an object
\* file once written is never deleted or rewritten, so the set of stored
\* hashes only grows, and the bytes under each hash stay the serialization
\* of the object that hashes to it.
C17_WriteOnce ==
    [][/\ \A h \in DOMAIN objects :
             h \in DOMAIN objects' /\ objects'[h] = objects[h]
       /\ \A h \in DOMAIN objects' : FileIsObject(objects', h)]_vars

\* init is repeated on a repository that holds objects and a commit
C17_Witness ==
    /\ op = "init"
    /\ ret = <<"False">>
    /\ Cardinality(DOMAIN objects) >= 3
    /\ log # <<>>
    /\ \A h \in DOMAIN objects : FileIsObject(objects, h)

\* the object stored under h, and whether h names a stored object of a type
StoredType(objs, h) ==
    IF h \in DOMAIN objs THEN deserialize(objs[h]).type ELSE "missing"

TypeOfMode(mode) == IF mode = "40000" THEN "tree" ELSE "blob"

CommitRefsStored(objs, content) ==
    LET c == from_content(content)
    IN  /\ StoredType(objs, c.tree_hash) = "tree"
        /\ \A i \in 1..Len(c.parent_hashes) :
              StoredType(objs, c.parent_hashes[i]) = "commit"

TreeRefsStored(objs, content) ==
    \A i \in 1..Len(content) :
        StoredType(objs, ToHex(content[i][3])) = TypeOfMode(content[i][1])

\* C18: in every state reachable by init, staging and commit, every hash in
\* the index names a stored blob, the branch ref names a stored commit,
\* every stored commit's tree and parents name stored objects, and every
\* entry of every stored tree names a stored object.
C18_ReferentialIntegrity ==
    /\ \A i \in 1..Len(index) : StoredType(objects, index[i][2]) = "blob"
    /\ \A b \in DOMAIN refs : StoredType(objects, refs[b]) = "commit"
    /\ \A h \in DOMAIN objects :
          LET o == deserialize(objects[h])
          IN  /\ o.type = "commit" => CommitRefsStored(objects, o.content)
              /\ o.type = "tree" => TreeRefsStored(objects, o.content)

\* a staged file, a branch ref, a commit with a parent and a tree that
\* holds a subtree
C18_Witness ==
    /\ index # <<>>
    /\ "main" \in DOMAIN refs
    /\ Len(from_content(deserialize(objects[refs["main"]]).content).parent_hashes) = 1
    /\ \E h \in DOMAIN objects :
          LET o == deserialize(objects[h])
          IN  /\ o.type = "tree"
              /\ \E i \in 1..Len(o.content) : o.content[i][1] = "40000"
    /\ C18_ReferentialIntegrity

\* the indexes that hold the same path -> hash mapping as idx, in every order
Reorderings(idx) ==
    LET n == Len(idx)
    IN  { [i \in 1..n |-> idx[f[i]]] :
            f \in {g \in [1..n -> 1..n] : \A i, j \in 1..n : g[i] = g[j] => i = j} }

\* C20: the root tree hash returned by create_tree_from_index depends only
\* on the path -> blob hash mapping of the index: an index that holds the
\* same mapping with its files staged in another order gives the same hash.
C20_TreeHashOrderIndependent ==
    op = "create_tree_from_index"
        => \A idx \in Reorderings(index) :
              create_tree_from_index(objects, idx).hash = ret

====
